---- MODULE Spec2Model ----
(***************************************************************************)
(* The TF-IDF retrieval index of src/services/vectorService.ts: the        *)
(* tokenizer, VectorIndex.createIndex / search / exportState / importState *)
(* and the module-level singleton vectorService.                           *)
(*                                                                         *)
(* Text is a sequence of one-character strings.  A JS Map is a sequence of *)
(* [key, val] entries in insertion order.  A JS number is a binary         *)
(* floating-point value with a Precision-bit significand, every operation  *)
(* rounded to nearest (ties to even) as IEEE-754 does; the exponent range  *)
(* is unbounded.                                                           *)
(*                                                                         *)
(* Four specifications run the same index on different inputs: Spec on a   *)
(* small project, EdgeSpec on files at the edges of what createIndex       *)
(* accepts (the same file more than once included), RankSpec on files of   *)
(* each kind that differ only in their token counts, SnippetSpec on files  *)
(* longer than a snippet.  TokenizeSpec applies the tokenizer alone to     *)
(* every text of a bounded set.                                            *)
(***************************************************************************)
EXTENDS Integers, Sequences, FiniteSets, TLC

\* ------------------------------------------------------------------ bounds

\* Bits of significand kept by every arithmetic operation (53 in a JS number).
Precision == 10

\* Largest number of files handed to one createIndex call.
MaxFiles == 3

\* The longest text handed to tokenize on its own, in pieces.
MaxPieces == 4

\* ------------------------------------------------- JS numbers and JS values

RECURSIVE Pow2(_)
Pow2(n) == IF n <= 0 THEN 1 ELSE 2 * Pow2(n - 1)

RECURSIVE BitLen(_)
BitLen(n) == IF n <= 0 THEN 0 ELSE 1 + BitLen(n \div 2)

Abs(n) == IF n < 0 THEN -n ELSE n

Sign(n) == IF n < 0 THEN -1 ELSE IF n > 0 THEN 1 ELSE 0

\* A JS value as the index meets it: a finite number s * m * 2^e (k = "num",
\* m normalised to Precision bits, or s = m = e = 0 for zero), Infinity
\* (k = "inf"), NaN, undefined or null.
Val(k, s, m, e) == [k |-> k, s |-> s, m |-> m, e |-> e]

Zero == Val("num", 0, 0, 0)

NaN == Val("nan", 0, 0, 0)

Inf(s) == Val("inf", s, 0, 0)

Undefined == Val("undef", 0, 0, 0)

Null == Val("null", 0, 0, 0)

\* M shifted right by sh bits, rounded to nearest, ties to even.
RoundShift(M, sh) ==
    LET q == M \div Pow2(sh)
        r == M % Pow2(sh)
        half == Pow2(sh - 1)
    IN  IF r > half \/ (r = half /\ q % 2 = 1) THEN q + 1 ELSE q

\* The number s * M * 2^E (M >= 0) rounded to Precision bits.
Norm(s, M, E) ==
    IF M = 0 \/ s = 0 THEN Zero
    ELSE LET bl == BitLen(M)
         IN  IF bl > Precision
             THEN LET sh == bl - Precision
                      q == RoundShift(M, sh)
                  IN  IF q = Pow2(Precision)
                      THEN Val("num", s, Pow2(Precision - 1), E + sh + 1)
                      ELSE Val("num", s, q, E + sh)
             ELSE Val("num", s, M * Pow2(Precision - bl), E - (Precision - bl))

\* An integer (a count, files.length) as a JS number.
FromInt(n) == Norm(Sign(n), Abs(n), 0)

IsZero(a) == a.k = "num" /\ a.s = 0

\* JS truthiness, as used by `x || 0` and `if (dScore)`.
Truthy(a) == (a.k = "num" /\ a.s # 0) \/ a.k = "inf"

\* ToNumber, applied by * to an operand that is not a number.
ToNumber(a) ==
    CASE a.k = "undef" -> NaN
      [] a.k = "null" -> Zero
      [] OTHER -> a

\* a * b
FMul(x, y) ==
    LET a == ToNumber(x)
        b == ToNumber(y)
    IN  CASE a.k = "nan" \/ b.k = "nan" -> NaN
          [] a.k = "inf" \/ b.k = "inf" ->
                IF a.s * b.s = 0 THEN NaN ELSE Inf(a.s * b.s)
          [] OTHER -> Norm(a.s * b.s, a.m * b.m, a.e + b.e)

\* a + b
FAdd(x, y) ==
    LET a == ToNumber(x)
        b == ToNumber(y)
    IN  CASE a.k = "nan" \/ b.k = "nan" -> NaN
          [] a.k = "inf" /\ b.k = "inf" -> IF a.s = b.s THEN a ELSE NaN
          [] a.k = "inf" -> a
          [] b.k = "inf" -> b
          [] a.s = 0 -> b
          [] b.s = 0 -> a
          [] a.e - b.e > Precision + 2 -> a
          [] b.e - a.e > Precision + 2 -> b
          [] OTHER ->
                LET e == IF a.e < b.e THEN a.e ELSE b.e
                    M == a.s * a.m * Pow2(a.e - e) + b.s * b.m * Pow2(b.e - e)
                IN  Norm(Sign(M), Abs(M), e)

\* floor(sqrt(n)), bit by bit from the top bit b down.
RECURSIVE ISqrtFrom(_, _, _)
ISqrtFrom(n, r, b) ==
    IF b < 0 THEN r
    ELSE LET t == r + Pow2(b)
         IN  ISqrtFrom(n, IF t * t <= n THEN t ELSE r, b - 1)

ISqrt(n) == ISqrtFrom(n, 0, (BitLen(n) + 1) \div 2)

\* Math.sqrt(a) for a >= 0.
FSqrt(x) ==
    LET a == ToNumber(x)
    IN  CASE a.k = "nan" -> NaN
          [] a.k = "inf" -> IF a.s > 0 THEN a ELSE NaN
          [] a.s = 0 -> Zero
          [] a.s < 0 -> NaN
          [] OTHER ->
                LET sh == IF (a.e - (Precision + 2)) % 2 = 0
                          THEN Precision + 2 ELSE Precision + 3
                    M == a.m * Pow2(sh)
                    r == ISqrt(M)
                    sticky == IF r * r = M THEN 0 ELSE 1
                IN  Norm(1, 2 * r + sticky, ((a.e - sh) \div 2) - 1)

\* a / b
FDiv(x, y) ==
    LET a == ToNumber(x)
        b == ToNumber(y)
    IN  CASE a.k = "nan" \/ b.k = "nan" -> NaN
          [] a.k = "inf" -> IF b.k = "inf" THEN NaN
                            ELSE Inf(IF b.s < 0 THEN -a.s ELSE a.s)
          [] b.k = "inf" -> Zero
          [] b.s = 0 -> IF a.s = 0 THEN NaN ELSE Inf(a.s)
          [] a.s = 0 -> Zero
          [] OTHER ->
                LET M == a.m * Pow2(Precision + 2)
                    q == M \div b.m
                    sticky == IF M % b.m = 0 THEN 0 ELSE 1
                IN  Norm(a.s * b.s, 2 * q + sticky,
                         a.e - b.e - (Precision + 2) - 1)

\* a < b for finite numbers.
FLess(a, b) ==
    IF a.s # b.s THEN a.s < b.s
    ELSE IF a.s = 0 THEN FALSE
    ELSE IF a.s > 0
         THEN a.e < b.e \/ (a.e = b.e /\ a.m < b.m)
         ELSE a.e > b.e \/ (a.e = b.e /\ a.m > b.m)

\* a > b as JS evaluates it: false when either side is NaN.
FGreater(a, b) ==
    CASE a.k = "nan" \/ b.k = "nan" -> FALSE
      [] a.k = "inf" -> a.s > 0 /\ ~(b.k = "inf" /\ b.s > 0)
      [] b.k = "inf" -> b.s < 0
      [] OTHER -> FLess(b, a)

\* round(ln(k) * 2^20) for k = 1..8: the table behind Math.log.
LnFix == <<0, 726817, 1151978, 1453635, 1687618, 1878796, 2040435, 2180452>>

\* As FLog, with the document count taken without the 1 added to it.
FLog_Unsmoothed(n, d) ==
    IF n = 0 THEN Inf(-1)
    ELSE IF d = 1 THEN Inf(1)
    ELSE LET t == LnFix[n] - LnFix[d - 1]
         IN  Norm(Sign(t), Abs(t), -20)

\* Math.log(n / d) for integers n >= 0, d >= 1 (line 58: N / (1 + count)).
FLog(n, d) ==
    IF n = 0 THEN Inf(-1)
    ELSE LET t == LnFix[n] - LnFix[d]
         IN  Norm(Sign(t), Abs(t), -20)

\* `x || 0`
OrZero(a) == IF Truthy(a) THEN a ELSE Zero

\* --------------------------------------------------------------------- text

UpperCase == <<"A", "B", "C", "D", "E", "F", "G", "H", "I", "J", "K", "L", "M",
               "N", "O", "P", "Q", "R", "S", "T", "U", "V", "W", "X", "Y", "Z">>

LowerCase == <<"a", "b", "c", "d", "e", "f", "g", "h", "i", "j", "k", "l", "m",
               "n", "o", "p", "q", "r", "s", "t", "u", "v", "w", "x", "y", "z">>

Digits == {"0", "1", "2", "3", "4", "5", "6", "7", "8", "9"}

\* The characters /[^a-z0-9_]/ does not match.
WordChars == {LowerCase[i] : i \in 1..26} \cup Digits \cup {"_"}

\* The characters /\s/ matches.
WhiteSpace == {" ", "\n", "\t", "\r"}

\* String.prototype.toLowerCase, one character.
ToLowerChar(c) ==
    IF \E i \in 1..26 : UpperCase[i] = c
    THEN LowerCase[CHOOSE i \in 1..26 : UpperCase[i] = c]
    ELSE c

ToLowerCase(text) == [i \in 1..Len(text) |-> ToLowerChar(text[i])]

\* .replace(/[^a-z0-9_]/g, ' ')
ReplaceNonWord(text) ==
    [i \in 1..Len(text) |-> IF text[i] \in WordChars THEN text[i] ELSE " "]

\* .split(/\s+/): the pieces between maximal runs of white space, the empty
\* pieces before a leading run and after a trailing run included.
NotWhiteAt(text, i) == text[i] \notin WhiteSpace

\* The places where a piece starts, in order.
PieceStarts(text) ==
    SelectSeq([i \in 1..Len(text) |-> i],
              LAMBDA i : NotWhiteAt(text, i) /\ (i = 1 \/ ~NotWhiteAt(text, i - 1)))

\* The place where the piece that starts at place i ends.
PieceEnd(text, i) ==
    CHOOSE j \in i..Len(text) :
        /\ \A k \in i..j : NotWhiteAt(text, k)
        /\ j = Len(text) \/ ~NotWhiteAt(text, j + 1)

SplitWhiteSpace(text) ==
    IF text = <<>> THEN << <<>> >>
    ELSE LET starts == PieceStarts(text)
         IN  (IF NotWhiteAt(text, 1) THEN <<>> ELSE << <<>> >>)
             \o [j \in 1..Len(starts) |-> SubSeq(text, starts[j], PieceEnd(text, starts[j]))]
             \o (IF NotWhiteAt(text, Len(text)) THEN <<>> ELSE << <<>> >>)

StopWords == { <<"i", "m", "p", "o", "r", "t">>, <<"f", "r", "o", "m">>,
               <<"d", "e", "f">>, <<"c", "l", "a", "s", "s">>,
               <<"r", "e", "t", "u", "r", "n">>, <<"s", "e", "l", "f">> }

\* The shortest token kept is one character longer than this (t.length > 2).
MinTokenLen == 2

\* As KeepToken, with a token of two characters kept (t.length >= 2).
KeepToken_TwoChars(t) == Len(t) >= MinTokenLen /\ t \notin StopWords

KeepToken(t) == Len(t) > MinTokenLen /\ t \notin StopWords

\* .filter(t => t.length > 2 && !stopwords.includes(t))
RECURSIVE FilterTokens(_)
FilterTokens(seq) ==
    IF seq = <<>> THEN <<>>
    ELSE IF KeepToken(Head(seq)) THEN <<Head(seq)>> \o FilterTokens(Tail(seq))
         ELSE FilterTokens(Tail(seq))

tokenize(text) ==
    FilterTokens(SplitWhiteSpace(ReplaceNonWord(ToLowerCase(text))))

\* String.prototype.endsWith
EndsWith(text, suffix) ==
    /\ Len(text) >= Len(suffix)
    /\ SubSeq(text, Len(text) - Len(suffix) + 1, Len(text)) = suffix

\* .replace(/\s+/g, ' '): every maximal run of white space becomes one space.
\* The places that are kept: all but white space that follows white space.
KeptPlaces(text) ==
    SelectSeq([i \in 1..Len(text) |-> i],
              LAMBDA i : i = 1 \/ NotWhiteAt(text, i) \/ NotWhiteAt(text, i - 1))

CollapseWhiteSpace(text) ==
    LET kept == KeptPlaces(text)
    IN  [j \in 1..Len(kept) |-> IF NotWhiteAt(text, kept[j]) THEN text[kept[j]] ELSE " "]

\* Characters of content kept in a snippet (content.slice(0, 200)).
SnippetLen == 200

Ellipsis == <<".", ".", ".">>

\* As Snippet, with the "..." appended only to a content that was cut.
Snippet_WhenCut(content) ==
    IF Len(content) <= SnippetLen THEN CollapseWhiteSpace(content)
    ELSE CollapseWhiteSpace(SubSeq(content, 1, SnippetLen)) \o Ellipsis

Snippet(content) ==
    CollapseWhiteSpace(SubSeq(content, 1,
        IF Len(content) < SnippetLen THEN Len(content) ELSE SnippetLen)) \o Ellipsis

\* ------------------------------------------------------------------ JS Map

Entry(k, v) == [key |-> k, val |-> v]

MapHas(map, k) == \E i \in 1..Len(map) : map[i].key = k

MapIndex(map, k) == CHOOSE i \in 1..Len(map) : map[i].key = k

\* Map.prototype.set: a present key keeps its place, a new key goes last.
MapSet(map, k, v) ==
    IF MapHas(map, k) THEN [map EXCEPT ![MapIndex(map, k)].val = v]
    ELSE Append(map, Entry(k, v))

\* (map.get(k) || 0) for a Map of counts.
CountOf(map, k) == IF MapHas(map, k) THEN map[MapIndex(map, k)].val ELSE 0

\* map.get(k) for a Map of JS values.
ValueOf(map, k) == IF MapHas(map, k) THEN map[MapIndex(map, k)].val ELSE Undefined

\* ------------------------------------------------------------- createIndex

\* As Vectorized, with the test of line 34 left out.
Vectorized_All(file) == TRUE

\* Line 34: the files that are tokenized; the others are skipped.
Vectorized(file) ==
    \/ file.language = "python"
    \/ EndsWith(file.path, <<".", "t", "x", "t">>)
    \/ EndsWith(file.path, <<".", "m", "d">>)

\* Lines 37-41: tokens.forEach(t => tf.set(t, (tf.get(t) || 0) + 1))
RECURSIVE CountTokens(_, _)
CountTokens(tokens, tf) ==
    IF tokens = <<>> THEN tf
    ELSE CountTokens(Tail(tokens), MapSet(tf, Head(tokens), CountOf(tf, Head(tokens)) + 1))

\* As UniqueTokens, with every occurrence of a token kept.
UniqueTokens_All(tokens, seen) == seen \o tokens

\* Line 44: new Set(tokens), in insertion order.
RECURSIVE UniqueTokens(_, _)
UniqueTokens(tokens, seen) ==
    IF tokens = <<>> THEN seen
    ELSE UniqueTokens(Tail(tokens),
                      IF \E i \in 1..Len(seen) : seen[i] = Head(tokens)
                      THEN seen ELSE Append(seen, Head(tokens)))

\* Lines 45-47: uniqueTokens.forEach(t => docCounts.set(t, (docCounts.get(t) || 0) + 1))
RECURSIVE CountDocs(_, _)
CountDocs(unique, counts) ==
    IF unique = <<>> THEN counts
    ELSE CountDocs(Tail(unique), MapSet(counts, Head(unique), CountOf(counts, Head(unique)) + 1))

\* As IndexFile, with a file that yields no token skipped like a file that
\* is not vectorized.
IndexFile_SkipEmpty(file, acc) ==
    IF ~Vectorized(file) \/ tokenize(file.content) = <<>> THEN acc
    ELSE LET tokens == tokenize(file.content)
         IN  [tfMaps |-> Append(acc.tfMaps,
                                [path |-> file.path, tf |-> CountTokens(tokens, <<>>)]),
              docCounts |-> CountDocs(UniqueTokens(tokens, <<>>), acc.docCounts),
              metadata |-> MapSet(acc.metadata, file.path, Snippet(file.content))]

\* Lines 32-53, one file: the locals tfMaps and docCounts and the live
\* metadata table after the callback has run on `file`.
IndexFile(file, acc) ==
    IF ~Vectorized(file) THEN acc
    ELSE LET tokens == tokenize(file.content)
         IN  [tfMaps |-> Append(acc.tfMaps,
                                [path |-> file.path, tf |-> CountTokens(tokens, <<>>)]),
              docCounts |-> CountDocs(UniqueTokens(tokens, <<>>), acc.docCounts),
              metadata |-> MapSet(acc.metadata, file.path, Snippet(file.content))]

\* Lines 32-53: files.forEach(...)
RECURSIVE IndexFiles(_, _)
IndexFiles(fs, acc) ==
    IF fs = <<>> THEN acc ELSE IndexFiles(Tail(fs), IndexFile(Head(fs), acc))

\* As SetIdf, with the 1 added to N as well: Math.log((1 + N) / (1 + count)).
RECURSIVE SetIdf_BothSmoothed(_, _, _)
SetIdf_BothSmoothed(counts, N, table) ==
    IF counts = <<>> THEN table
    ELSE SetIdf_BothSmoothed(Tail(counts), N,
                MapSet(table, Head(counts).key, FLog(1 + N, 1 + Head(counts).val)))

\* Lines 56-59: docCounts.forEach((count, term) => this.idf.set(term, Math.log(N / (1 + count))))
RECURSIVE SetIdf(_, _, _)
SetIdf(counts, N, table) ==
    IF counts = <<>> THEN table
    ELSE SetIdf(Tail(counts), N,
                MapSet(table, Head(counts).key, FLog(N, 1 + Head(counts).val)))

\* As WeightVector, with the count of line 67 left out of the product.
WeightVector_Uncounted(tf, table) ==
    [i \in 1..Len(tf) |-> Entry(tf[i].key, OrZero(ValueOf(table, tf[i].key)))]

\* Lines 63-70: one document's vector, tf.forEach in insertion order.
WeightVector(tf, table) ==
    [i \in 1..Len(tf) |->
        Entry(tf[i].key, FMul(FromInt(tf[i].val), OrZero(ValueOf(table, tf[i].key))))]

\* Line 69: magnitudeSq += score * score, in the vector's order.
RECURSIVE SumSquares(_, _)
SumSquares(vector, acc) ==
    IF vector = <<>> THEN acc
    ELSE SumSquares(Tail(vector), FAdd(acc, FMul(Head(vector).val, Head(vector).val)))

\* Lines 62-77: tfMaps.map(({ path, tf }) => ({ path, vector, magnitude }))
MakeVectors(maps, table) ==
    [i \in 1..Len(maps) |->
        LET vector == WeightVector(maps[i].tf, table)
        IN  [path |-> maps[i].path,
             vector |-> vector,
             magnitude |-> FSqrt(SumSquares(vector, Zero))]]

\* ------------------------------------------------------------------ search

\* Limit used when search is called without one (line 82).
DefaultLimit == 3

\* The literal 0.1 of line 123.
Threshold == FDiv(FromInt(1), FromInt(10))

FNeg(a) == IF a.k \in {"num", "inf"} THEN [a EXCEPT !.s = -a.s] ELSE a

\* As QueryVector, with a term that has no idf weighted by its count alone.
QueryVector_UnknownCounts(tokens, table) ==
    LET counts == CountTokens(tokens, <<>>)
    IN  [i \in 1..Len(counts) |->
            IF MapHas(table, counts[i].key) THEN WeightVector(counts, table)[i]
            ELSE Entry(counts[i].key, FromInt(counts[i].val))]

\* Lines 94-98: queryVector.forEach((count, term) => queryVector.set(term, count * idf))
QueryVector(tokens, table) == WeightVector(CountTokens(tokens, <<>>), table)

\* Lines 105-111: the dot product over the query's terms the document has.
RECURSIVE DotProduct(_, _, _)
DotProduct(qv, vector, acc) ==
    IF qv = <<>> THEN acc
    ELSE LET dScore == ValueOf(vector, Head(qv).key)
         IN  DotProduct(Tail(qv), vector,
                        IF Truthy(dScore) THEN FAdd(acc, FMul(Head(qv).val, dScore))
                        ELSE acc)

\* Line 113
Similarity(qv, qMag, doc) ==
    FDiv(DotProduct(qv, doc.vector, Zero), FMul(qMag, doc.magnitude))

\* As SnippetOf, with "..." for a path the table lacks.
SnippetOf_Ellipsis(meta, path) ==
    IF MapHas(meta, path) THEN meta[MapIndex(meta, path)].val ELSE Ellipsis

\* Line 117: this.metadata.get(doc.path) || ""
SnippetOf(meta, path) ==
    IF MapHas(meta, path) THEN meta[MapIndex(meta, path)].val ELSE <<>>

\* As Scored, with the result's path looked up in the metadata table.
Scored_PathFromMetadata(docs, meta, qv, qMag) ==
    [i \in 1..Len(docs) |->
        [path |-> IF i <= Len(meta) THEN meta[i].key ELSE docs[i].path,
         score |-> OrZero(Similarity(qv, qMag, docs[i])),
         snippet |-> SnippetOf(meta, docs[i].path)]]

\* As Scored, with the score of line 116 taken without its `|| 0`.
Scored_Unguarded(docs, meta, qv, qMag) ==
    [i \in 1..Len(docs) |->
        [path |-> docs[i].path,
         score |-> Similarity(qv, qMag, docs[i]),
         snippet |-> SnippetOf(meta, docs[i].path)]]

\* Lines 104-119: one result per document, in index order.
Scored(docs, meta, qv, qMag) ==
    [i \in 1..Len(docs) |->
        [path |-> docs[i].path,
         score |-> OrZero(Similarity(qv, qMag, docs[i])),
         snippet |-> SnippetOf(meta, docs[i].path)]]

\* As SortsBefore, with the comparator (a, b) => a.score - b.score.
SortsBefore_Ascending(a, b) ==
    LET d == FAdd(a.score, FNeg(b.score))
    IN  d.k \in {"num", "inf"} /\ d.s < 0

\* Line 122: the comparator (a, b) => b.score - a.score is negative.
SortsBefore(a, b) ==
    LET d == FAdd(b.score, FNeg(a.score))
    IN  d.k \in {"num", "inf"} /\ d.s < 0

\* As InsertSorted, with r put before the entries it ties with.
RECURSIVE InsertSorted_BeforeEqual(_, _)
InsertSorted_BeforeEqual(sorted, r) ==
    IF sorted = <<>> THEN <<r>>
    ELSE IF ~SortsBefore(Head(sorted), r) THEN <<r>> \o sorted
         ELSE <<Head(sorted)>> \o InsertSorted_BeforeEqual(Tail(sorted), r)

\* r put into a list already sorted, after every entry it does not sort before.
RECURSIVE InsertSorted(_, _)
InsertSorted(sorted, r) ==
    IF sorted = <<>> THEN <<r>>
    ELSE IF SortsBefore(r, Head(sorted)) THEN <<r>> \o sorted
         ELSE <<Head(sorted)>> \o InsertSorted(Tail(sorted), r)

\* Line 122: Array.prototype.sort, which is stable.
RECURSIVE SortByScore(_, _)
SortByScore(rs, sorted) ==
    IF rs = <<>> THEN sorted
    ELSE SortByScore(Tail(rs), InsertSorted(sorted, Head(rs)))

\* Line 123: .filter(r => r.score > 0.1)
RECURSIVE AboveThreshold(_)
AboveThreshold(rs) ==
    IF rs = <<>> THEN <<>>
    ELSE IF FGreater(Head(rs).score, Threshold)
         THEN <<Head(rs)>> \o AboveThreshold(Tail(rs))
         ELSE AboveThreshold(Tail(rs))

\* As Slice, keeping one entry beyond the limit.
Slice_OneMore(rs, limit) ==
    SubSeq(rs, 1, IF Len(rs) < limit + 1 THEN Len(rs) ELSE limit + 1)

\* Line 124: .slice(0, limit) for limit >= 0
Slice(rs, limit) == SubSeq(rs, 1, IF Len(rs) < limit THEN Len(rs) ELSE limit)

\* As ZeroMagnitude, with the guard of line 101 left out.
ZeroMagnitude_Unchecked(qMag) == FALSE

\* Line 101: if (queryMagnitude === 0) return [];
ZeroMagnitude(qMag) == IsZero(qMag)

\* Lines 82-125.  `divisions` counts the similarities computed (line 113).
SearchIn(docs, table, meta, query, limit) ==
    LET qv == QueryVector(tokenize(query), table)
        qMag == FSqrt(SumSquares(qv, Zero))
    IN  IF ZeroMagnitude(qMag)
        THEN [results |-> <<>>, divisions |-> 0]
        ELSE [results |-> Slice(AboveThreshold(SortByScore(
                              Scored(docs, meta, qv, qMag), <<>>)), limit),
              divisions |-> Len(docs)]

\* ------------------------------------------------- exportState, importState

\* A JSON text is modelled by what JSON.parse makes of it: text = "garbage" is
\* not JSON (SyntaxError), "null" is the JSON null, "value" is any other JSON
\* value, of which only its idf and metadata fields matter.  A field is absent
\* (k = "absent"), a value new Map cannot iterate such as a number
\* (k = "scalar"), or a list of entries; an entry [key] has hasVal = FALSE.
Field(k, entries) == [k |-> k, entries |-> entries]

Payload(text, idfField, metaField) ==
    [text |-> text, idf |-> idfField, metadata |-> metaField]

JsonEntry(k, v, hasVal) == [key |-> k, val |-> v, hasVal |-> hasVal]

\* A JSON number literal beyond the range of a JS number, such as 1e999.
BigLiteral(s) == Val("big", s, 0, 0)

\* JSON.stringify of an idf value inside an array: undefined, NaN and the
\* infinities are written as null.
StringifyValue(v) == IF v.k \in {"undef", "nan", "inf"} THEN Null ELSE v

\* JSON.parse of a value: an out-of-range literal becomes an infinity.
ParseValue(v) == IF v.k = "big" THEN Inf(v.s) ELSE v

\* Lines 129-130: Array.from(map.entries()) as JSON.stringify writes it.
StringifyIdf(table) ==
    [i \in 1..Len(table) |-> JsonEntry(table[i].key, StringifyValue(table[i].val), TRUE)]

StringifyMetadata(meta) ==
    [i \in 1..Len(meta) |-> JsonEntry(meta[i].key, meta[i].val, TRUE)]

\* Lines 127-132
ExportOf(table, meta) ==
    Payload("value", Field("entries", StringifyIdf(table)),
                     Field("entries", StringifyMetadata(meta)))

\* new Map(entries) for the idf table
RECURSIVE IdfFromEntries(_, _)
IdfFromEntries(entries, map) ==
    IF entries = <<>> THEN map
    ELSE IdfFromEntries(Tail(entries),
            MapSet(map, Head(entries).key,
                   IF Head(entries).hasVal THEN ParseValue(Head(entries).val)
                   ELSE Undefined))

\* new Map(entries) for the metadata table
RECURSIVE MetadataFromEntries(_, _)
MetadataFromEntries(entries, map) ==
    IF entries = <<>> THEN map
    ELSE MetadataFromEntries(Tail(entries),
            MapSet(map, Head(entries).key, Head(entries).val))

\* As ParseThrows, with a text that is not JSON read as an empty value.
ParseThrows_NullOnly(p) == p.text = "null"

\* Line 136: JSON.parse(json) throws, or line 137 cannot read data.idf.
ParseThrows(p) == p.text \in {"garbage", "null"}

\* new Map(field) throws a TypeError.
MapThrows(field) == field.k = "scalar"

\* As ImportedIdf, with a payload without an idf field leaving the table.
ImportedIdf_KeptWhenAbsent(p, table) ==
    IF ParseThrows(p) \/ MapThrows(p.idf) \/ p.idf.k = "absent" THEN table
    ELSE IdfFromEntries(p.idf.entries, <<>>)

\* Line 137: this.idf after importState(p) on a table `table`.
ImportedIdf(p, table) ==
    IF ParseThrows(p) \/ MapThrows(p.idf) THEN table
    ELSE IF p.idf.k = "absent" THEN <<>>
    ELSE IdfFromEntries(p.idf.entries, <<>>)

\* Line 138: this.metadata after importState(p) on a table `meta`.
ImportedMetadata(p, meta) ==
    IF ParseThrows(p) \/ MapThrows(p.idf) \/ MapThrows(p.metadata) THEN meta
    ELSE IF p.metadata.k = "absent" THEN <<>>
    ELSE MetadataFromEntries(p.metadata.entries, <<>>)

\* As ImportedDocuments, with a successful import dropping the documents.
ImportedDocuments_Dropped(p, docs) ==
    IF ParseThrows(p) \/ MapThrows(p.idf) \/ MapThrows(p.metadata) THEN docs ELSE <<>>

\* As ImportedDocuments, with a successful import making one document per
\* imported metadata entry out of the imported idf table.
ImportedDocuments_Rebuilt(p, docs) ==
    IF ParseThrows(p) \/ MapThrows(p.idf) \/ MapThrows(p.metadata) THEN docs
    ELSE LET table == ImportedIdf(p, <<>>)
             meta == ImportedMetadata(p, <<>>)
             vector == [i \in 1..Len(table) |-> Entry(table[i].key, OrZero(table[i].val))]
         IN  [i \in 1..Len(meta) |->
                 [path |-> meta[i].key, vector |-> vector,
                  magnitude |-> FSqrt(SumSquares(vector, Zero))]]

\* Lines 134-142: importState assigns nothing to this.documents.
ImportedDocuments(p, docs) == docs

\* An exception is raised inside the try block of lines 135-139.
ImportRaises(p) == ParseThrows(p) \/ MapThrows(p.idf) \/ MapThrows(p.metadata)

\* Lines 139-141: the catch clause takes every exception and logs it.
ImportCaught(p) == ImportRaises(p)

\* importState(p) throws to its caller: an exception is raised and escapes.
ImportThrows(p) == ImportRaises(p) /\ ~ImportCaught(p)

\* ----------------------------------------------------------------- inputs

TokGet ==
    <<"g", "e", "t">>

TokUrl ==
    <<"u", "r", "l">>

TokRequests ==
    <<"r", "e", "q", "u", "e", "s", "t", "s">>

TokOld ==
    <<"o", "l", "d">>

PathA ==
    <<"a", ".", "p", "y">>

ContentA ==
    <<"d", "e", "f", " ", "f", "o", "o", "(", ")", ":", " ", "i", "m", "p",
    "o", "r", "t", " ", "r", "e", "q", "u", "e", "s", "t", "s", "\n", "r",
    "e", "q", "u", "e", "s", "t", "s", ".", "g", "e", "t", "(", "u", "r", "l",
    ")">>

FileA == [path |-> PathA, content |-> ContentA, language |-> "python"]

PathB ==
    <<"b", ".", "p", "y">>

ContentB ==
    <<"d", "e", "f", " ", "b", "a", "r", "(", ")", ":", " ", "p", "a", "s",
    "s">>

FileB == [path |-> PathB, content |-> ContentB, language |-> "python"]

PathC ==
    <<"c", ".", "m", "d">>

ContentC ==
    <<"G", "e", "t", " ", "u", "r", "l">>

FileC == [path |-> PathC, content |-> ContentC, language |-> "text"]

PathD ==
    <<"l", "o", "g", "o", ".", "p", "n", "g">>

ContentD ==
    <<"g", "e", "t">>

FileD == [path |-> PathD, content |-> ContentD, language |-> "other"]

\* The project files createIndex is called with.
Files == {FileA, FileB, FileC, FileD}

\* The arguments of createIndex: lists of at most MaxFiles distinct files.
FileLists ==
    UNION {{fs \in [1..n -> Files] : \A i, j \in 1..n : fs[i] = fs[j] => i = j}
           : n \in 0..MaxFiles}

QueryRequestsGet ==
    <<"r", "e", "q", "u", "e", "s", "t", "s", " ", "g", "e", "t">>

QueryEmpty ==
    <<>>

QueryDropped ==
    <<"d", "e", "f", " ", "i", "t">>

QueryGetUrl ==
    <<"g", "e", "t", " ", "u", "r", "l">>

QueryUnknown ==
    <<"n", "o", "t", "h", "i", "n", "g">>

QueryGetBarBar ==
    <<"g", "e", "t", " ", "b", "a", "r", " ", "b", "a", "r">>

Queries == {QueryRequestsGet, QueryEmpty, QueryDropped, QueryGetUrl, QueryUnknown,
            QueryGetBarBar}

\* The limit argument of search: given, or omitted.
Limit(given, n) == [given |-> given, value |-> n]

LimitArgs == {Limit(FALSE, 0), Limit(TRUE, 1)}

PathOld ==
    <<"o", "l", "d", ".", "p", "y">>

SnippetOld ==
    <<"o", "l", "d", ".", ".", ".">>

\* Not JSON.
PayloadGarbage == Payload("garbage", Field("absent", <<>>), Field("absent", <<>>))

\* null
PayloadNull == Payload("null", Field("absent", <<>>), Field("absent", <<>>))

\* {}
PayloadEmpty == Payload("value", Field("absent", <<>>), Field("absent", <<>>))

\* {"idf": [["get", -1]], "metadata": 5}
PayloadIdfOnly ==
    Payload("value", Field("entries", <<JsonEntry(TokGet, FromInt(-1), TRUE)>>),
                     Field("scalar", <<>>))

\* {"idf": 5, "metadata": [["old.py", "old..."]]}
PayloadMetadataOnly ==
    Payload("value", Field("scalar", <<>>),
                     Field("entries", <<JsonEntry(PathOld, SnippetOld, TRUE)>>))

\* {"idf": [["get", 1], ["old", 2]], "metadata": [["old.py", "old..."]]}
PayloadOld ==
    Payload("value",
            Field("entries", <<JsonEntry(TokGet, FromInt(1), TRUE),
                               JsonEntry(TokOld, FromInt(2), TRUE)>>),
            Field("entries", <<JsonEntry(PathOld, SnippetOld, TRUE)>>))

\* {"idf": [["url"], ["get", -1e999]], "metadata": []}
PayloadOdd ==
    Payload("value",
            Field("entries", <<JsonEntry(TokUrl, Null, FALSE),
                               JsonEntry(TokGet, BigLiteral(-1), TRUE)>>),
            Field("entries", <<>>))

Payloads == {PayloadGarbage, PayloadNull, PayloadEmpty, PayloadIdfOnly,
             PayloadMetadataOnly, PayloadOld, PayloadOdd}

\* Files at the edges of what createIndex accepts: one token repeated, empty
\* content, content of which the tokenizer keeps nothing.
TokDatabase ==
    <<"d", "a", "t", "a", "b", "a", "s", "e">>

PathDb ==
    <<"d", "b", ".", "p", "y">>

ContentDb ==
    <<"d", "a", "t", "a", "b", "a", "s", "e", " ", "d", "a", "t", "a", "b",
    "a", "s", "e", " ", "d", "a", "t", "a", "b", "a", "s", "e", " ", "d", "a",
    "t", "a", "b", "a", "s", "e", " ", "d", "a", "t", "a", "b", "a", "s",
    "e">>

FileDb == [path |-> PathDb, content |-> ContentDb, language |-> "python"]

PathEmpty ==
    <<"e", "m", "p", "t", "y", ".", "t", "x", "t">>

ContentEmpty ==
    <<>>

FileEmpty == [path |-> PathEmpty, content |-> ContentEmpty, language |-> "text"]

PathStop ==
    <<"s", "t", "o", "p", ".", "m", "d">>

ContentStop ==
    <<"d", "e", "f", " ", "i", "t">>

FileStop == [path |-> PathStop, content |-> ContentStop, language |-> "text"]

EdgeFiles == {FileDb, FileEmpty, FileStop}

\* The arguments of createIndex at the edges: every list of at most
\* MaxFiles + 1 of these files, the same file more than once included.
EdgeLists == UNION {[1..n -> EdgeFiles] : n \in 0..(MaxFiles + 1)}

QueryDatabase ==
    <<"d", "a", "t", "a", "b", "a", "s", "e">>

EdgeQueries == {QueryDatabase, QueryEmpty}

EdgeLimitArgs == {Limit(FALSE, 0), Limit(TRUE, 0), Limit(TRUE, 2)}

EdgePayloads == {PayloadGarbage, PayloadEmpty}

\* Files that hold the same three tokens, in the same order, with different
\* counts: one of each kind the application makes (a .py file is 'python',
\* any other file is 'text').
TokLog ==
    <<"l", "o", "g">>

PathP ==
    <<"p", ".", "p", "y">>

ContentP ==
    <<"g", "e", "t", " ", "u", "r", "l", " ", "u", "r", "l", " ", "l", "o",
    "g">>

FileP == [path |-> PathP, content |-> ContentP, language |-> "python"]

PathQ ==
    <<"q", ".", "m", "d">>

ContentQ ==
    <<"g", "e", "t", " ", "u", "r", "l", " ", "l", "o", "g", " ", "l", "o",
    "g">>

FileQ == [path |-> PathQ, content |-> ContentQ, language |-> "text"]

PathR ==
    <<"r", ".", "t", "x", "t">>

ContentR ==
    <<"g", "e", "t", " ", "u", "r", "l", " ", "l", "o", "g">>

FileR == [path |-> PathR, content |-> ContentR, language |-> "text"]

PathJ ==
    <<"j", ".", "j", "s", "o", "n">>

ContentJ ==
    <<"g", "e", "t", " ", "u", "r", "l", " ", "l", "o", "g">>

FileJ == [path |-> PathJ, content |-> ContentJ, language |-> "text"]

RankFiles == {FileP, FileQ, FileR, FileJ}

\* The arguments of createIndex: lists of at most MaxFiles distinct files.
RankLists ==
    UNION {{fs \in [1..n -> RankFiles] : \A i, j \in 1..n : fs[i] = fs[j] => i = j}
           : n \in 0..MaxFiles}

QueryGetGetGetUrlLog ==
    <<"g", "e", "t", " ", "g", "e", "t", " ", "g", "e", "t", " ", "u", "r",
    "l", " ", "l", "o", "g">>

QueryLog ==
    <<"l", "o", "g">>

RankQueries == {QueryGetGetGetUrlLog, QueryLog}

RankLimitArgs == {Limit(FALSE, 0), Limit(TRUE, 1), Limit(TRUE, 2)}

\* {"metadata": [["old.py", "old..."]]}
PayloadNoIdf ==
    Payload("value", Field("absent", <<>>),
                     Field("entries", <<JsonEntry(PathOld, SnippetOld, TRUE)>>))

\* {"idf": [["get", -1]]}
PayloadNoMetadata ==
    Payload("value", Field("entries", <<JsonEntry(TokGet, FromInt(-1), TRUE)>>),
                     Field("absent", <<>>))

\* {"idf": [["get", -1]], "metadata": [["p.py", ""]]}
PayloadBlankSnippet ==
    Payload("value", Field("entries", <<JsonEntry(TokGet, FromInt(-1), TRUE)>>),
                     Field("entries", <<JsonEntry(PathP, <<>>, TRUE)>>))

RankPayloads == {PayloadEmpty, PayloadOld, PayloadNoIdf, PayloadNoMetadata,
                 PayloadBlankSnippet, PayloadGarbage}

\* Texts handed to tokenize on its own: a stopword in upper case, a word in
\* upper case, a word with an underscore and a digit, a word of two letters,
\* a letter, a space, a full stop and a line break, joined in every order.
Pieces == { <<"S", "e", "l", "f">>, <<"G", "e", "t">>, <<"a", "_", "1">>,
            <<"i", "t">>, <<"s">>, <<" ">>, <<".">>, <<"\n">> }

RECURSIVE Concat(_)
Concat(parts) == IF parts = <<>> THEN <<>> ELSE Head(parts) \o Concat(Tail(parts))

Texts == { Concat(parts) : parts \in UNION {[1..n -> Pieces] : n \in 0..MaxPieces} }

\* Files whose contents are longer than a snippet or are white space.
RECURSIVE Repeat(_, _)
Repeat(text, n) == IF n = 0 THEN <<>> ELSE text \o Repeat(text, n - 1)

PathLong ==
    <<"l", "o", "n", "g", ".", "p", "y">>

\* 200 characters without white space, then white space and a word.
ContentLong ==
    <<"G", "e", "t", "_", "u", "r", "l", ".">> \o Repeat(<<"-", "=">>, 96)
    \o <<" ", "\n", " ", "r", "e", "q", "u", "e", "s", "t", "s">>

FileLong == [path |-> PathLong, content |-> ContentLong, language |-> "python"]

PathWide ==
    <<"w", "i", "d", "e", ".", "m", "d">>

\* 195 characters, then a run of white space from place 196 to place 203,
\* then a word.
ContentWide ==
    <<"g", "e", "t", " ", " ", "u", "r", "l", "\n">> \o Repeat(<<"-", "=">>, 93)
    \o <<" ", "\n", "\n", "\t", " ", "\r", " ", " ">>
    \o <<"r", "e", "q", "u", "e", "s", "t", "s">>

FileWide == [path |-> PathWide, content |-> ContentWide, language |-> "text"]

PathBlank ==
    <<"b", "l", "a", "n", "k", ".", "t", "x", "t">>

ContentBlank ==
    <<" ", "\n", "\t", "G", "e", "t", " ", " ", "u", "r", "l", " ", "\n">>

FileBlank == [path |-> PathBlank, content |-> ContentBlank, language |-> "text"]

SnippetFiles == {FileLong, FileWide, FileBlank, FileEmpty}

\* The arguments of createIndex: lists of at most MaxFiles distinct files.
SnippetLists ==
    UNION {{fs \in [1..n -> SnippetFiles] : \A i, j \in 1..n : fs[i] = fs[j] => i = j}
           : n \in 0..MaxFiles}

SnippetQueries == {QueryGetUrl}

SnippetPayloads == {PayloadEmpty}

\* Lines 23-80 on an index as constructed: createIndex(fs) run from empty
\* tables and empty locals.
FreshBuild(fs) ==
    LET acc == IndexFiles(fs, [tfMaps |-> <<>>, docCounts |-> <<>>, metadata |-> <<>>])
        table == SetIdf(acc.docCounts, Len(fs), <<>>)
    IN  [documents |-> MakeVectors(acc.tfMaps, table),
         idf |-> table,
         metadata |-> acc.metadata]

\* The paths createIndex(fs) vectorizes.
VectorizedPaths(fs) == {fs[i].path : i \in {j \in 1..Len(fs) : Vectorized(fs[j])}}

\* -------------------------------------------------------------- the index

VARIABLES
    documents,  \* this.documents: DocumentVector[]
    idf,        \* this.idf: Map<string, number>
    metadata,   \* this.metadata: Map<string, string>
    stage,      \* where the running createIndex call stands; "idle" when none runs
    files,      \* the argument of the most recent createIndex call
    tfMaps,     \* tfMaps of the most recent createIndex call
    docCounts,  \* docCounts of the most recent createIndex call
    imported,   \* importState has been called since the most recent createIndex call
    ret         \* what the most recent call returned to its caller

vars == <<documents, idf, metadata, stage, files, tfMaps, docCounts, imported, ret>>

\* As Init, with a metadata table that already holds an entry.
Init_Preloaded ==
    /\ documents = <<>>
    /\ idf = <<>>
    /\ metadata = <<Entry(PathOld, SnippetOld)>>
    /\ stage = "idle"
    /\ files = <<>>
    /\ tfMaps = <<>>
    /\ docCounts = <<>>
    /\ imported = FALSE
    /\ ret = [op |-> "none"]

\* Lines 19-21 and 145: the singleton as constructed.
Init ==
    /\ documents = <<>>
    /\ idf = <<>>
    /\ metadata = <<>>
    /\ stage = "idle"
    /\ files = <<>>
    /\ tfMaps = <<>>
    /\ docCounts = <<>>
    /\ imported = FALSE
    /\ ret = [op |-> "none"]

\* As CallMayStart, with createIndex yielding the thread between its steps.
CallMayStart_Interleaved == TRUE

\* A call on the index starts only when no call is running: createIndex is
\* declared async but awaits nothing, so its body runs to completion before
\* any other caller gets the thread.
CallMayStart == stage = "idle"

\* The most recent call was createIndex, it has returned its promise, and the
\* caller has not waited for it.
Unawaited == ret.op = "createIndex" /\ ret.promise = "unawaited"

\* Line 24: this.documents = []
ClearedDocuments == <<>>

\* As ClearedIdf, with line 25 left out.
ClearedIdf_Kept == idf

\* Line 25: this.idf.clear()
ClearedIdf == <<>>

\* Line 26: this.metadata.clear()
ClearedMetadata == <<>>

\* Line 28: const tfMaps = []
InitialTfMaps == <<>>

\* Line 29: const docCounts = new Map()
InitialDocCounts == <<>>

\* Lines 23-29: createIndex(fs) is called; the tables are cleared.
CreateIndexCall(fs) ==
    /\ CallMayStart
    /\ documents' = ClearedDocuments
    /\ idf' = ClearedIdf
    /\ metadata' = ClearedMetadata
    /\ files' = fs
    /\ tfMaps' = InitialTfMaps
    /\ docCounts' = InitialDocCounts
    /\ stage' = "tf"
    /\ imported' = FALSE
    /\ ret' = [op |-> "createIndex", promise |-> "running"]

\* Lines 32-53: term frequencies, document counts and snippets.
CreateIndexTf ==
    /\ stage = "tf"
    /\ LET acc == IndexFiles(files, [tfMaps |-> tfMaps, docCounts |-> docCounts,
                                     metadata |-> metadata])
       IN  /\ tfMaps' = acc.tfMaps
           /\ docCounts' = acc.docCounts
           /\ metadata' = acc.metadata
    /\ stage' = "idf"
    /\ UNCHANGED <<documents, idf, files, imported, ret>>

\* Lines 56-59: the idf table.
CreateIndexIdf ==
    /\ stage = "idf"
    /\ idf' = SetIdf(docCounts, Len(files), idf)
    /\ stage' = "vectors"
    /\ UNCHANGED <<documents, metadata, files, tfMaps, docCounts, imported, ret>>

\* Line 62: the documents list once the vectors are made.
NewDocuments == MakeVectors(tfMaps, idf)

\* Lines 62-80: the vectors; the call returns its promise.
CreateIndexVectors ==
    /\ stage = "vectors"
    /\ documents' = NewDocuments
    /\ stage' = "idle"
    /\ ret' = [op |-> "createIndex", promise |-> "unawaited"]
    /\ UNCHANGED <<idf, metadata, files, tfMaps, docCounts, imported>>

\* The caller's `await` on the promise createIndex returned resumes.
PromiseAwaited ==
    /\ CallMayStart
    /\ Unawaited
    /\ ret' = [op |-> "createIndex", promise |-> "awaited"]
    /\ UNCHANGED <<documents, idf, metadata, stage, files, tfMaps, docCounts, imported>>

EffectiveLimit(l) == IF l.given THEN l.value ELSE DefaultLimit

\* Every entry of a vector set in a table.
RECURSIVE SetAll(_, _)
SetAll(table, vector) ==
    IF vector = <<>> THEN table
    ELSE SetAll(MapSet(table, Head(vector).key, Head(vector).val), Tail(vector))

\* As Search, with line 96 setting the query's weights in this.idf.
Search_Learning(q, l) ==
    /\ CallMayStart
    /\ LET found == SearchIn(documents, idf, metadata, q, EffectiveLimit(l))
       IN  ret' = [op |-> "search", query |-> q, limit |-> l,
                   results |-> found.results, divisions |-> found.divisions,
                   unawaited |-> Unawaited]
    /\ idf' = SetAll(idf, QueryVector(tokenize(q), idf))
    /\ UNCHANGED <<documents, metadata, stage, files, tfMaps, docCounts, imported>>

\* Lines 82-125: search(q, limit)
Search(q, l) ==
    /\ CallMayStart
    /\ LET found == SearchIn(documents, idf, metadata, q, EffectiveLimit(l))
       IN  ret' = [op |-> "search", query |-> q, limit |-> l,
                   results |-> found.results, divisions |-> found.divisions,
                   unawaited |-> Unawaited]
    /\ UNCHANGED <<documents, idf, metadata, stage, files, tfMaps, docCounts, imported>>

\* Lines 127-132: exportState()
ExportState ==
    /\ CallMayStart
    /\ ret' = [op |-> "export", payload |-> ExportOf(idf, metadata),
               unawaited |-> Unawaited]
    /\ UNCHANGED <<documents, idf, metadata, stage, files, tfMaps, docCounts, imported>>

\* Lines 134-142: importState(p)
ImportState(p) ==
    /\ CallMayStart
    /\ documents' = ImportedDocuments(p, documents)
    /\ idf' = ImportedIdf(p, idf)
    /\ metadata' = ImportedMetadata(p, metadata)
    /\ imported' = TRUE
    /\ ret' = [op |-> "import", arg |-> p, caught |-> ImportCaught(p),
               threw |-> ImportThrows(p), roundTrip |-> FALSE]
    /\ UNCHANGED <<stage, files, tfMaps, docCounts>>

\* importState(exportState()): the string just exported is imported.
ImportExported ==
    /\ CallMayStart
    /\ ret.op = "export"
    /\ documents' = ImportedDocuments(ret.payload, documents)
    /\ idf' = ImportedIdf(ret.payload, idf)
    /\ metadata' = ImportedMetadata(ret.payload, metadata)
    /\ imported' = TRUE
    /\ ret' = [op |-> "import", arg |-> ret.payload, caught |-> ImportCaught(ret.payload),
               threw |-> ImportThrows(ret.payload), roundTrip |-> TRUE]
    /\ UNCHANGED <<stage, files, tfMaps, docCounts>>

\* Lines 4-10: tokenize is applied to the text it was handed; the index is
\* not touched.
Tokenize ==
    /\ ret.op = "text"
    /\ ret' = [op |-> "tokenize", text |-> ret.text, tokens |-> tokenize(ret.text)]
    /\ UNCHANGED <<documents, idf, metadata, stage, files, tfMaps, docCounts, imported>>

Next ==
    \/ \E fs \in FileLists : CreateIndexCall(fs)
    \/ CreateIndexTf
    \/ CreateIndexIdf
    \/ CreateIndexVectors
    \/ PromiseAwaited
    \/ \E q \in Queries, l \in LimitArgs : Search(q, l)
    \/ ExportState
    \/ \E p \in Payloads : ImportState(p)
    \/ ImportExported

Spec == Init /\ [][Next]_vars

\* The same index, called with the files, queries and limits at the edges.
EdgeNext ==
    \/ \E fs \in EdgeLists : CreateIndexCall(fs)
    \/ CreateIndexTf
    \/ CreateIndexIdf
    \/ CreateIndexVectors
    \/ PromiseAwaited
    \/ \E q \in EdgeQueries, l \in EdgeLimitArgs : Search(q, l)
    \/ ExportState
    \/ \E p \in EdgePayloads : ImportState(p)
    \/ ImportExported

EdgeSpec == Init /\ [][EdgeNext]_vars

\* The same index, called with files of each kind that differ only in their
\* token counts.
RankNext ==
    \/ \E fs \in RankLists : CreateIndexCall(fs)
    \/ CreateIndexTf
    \/ CreateIndexIdf
    \/ CreateIndexVectors
    \/ PromiseAwaited
    \/ \E q \in RankQueries, l \in RankLimitArgs : Search(q, l)
    \/ ExportState
    \/ \E p \in RankPayloads : ImportState(p)
    \/ ImportExported

RankSpec == Init /\ [][RankNext]_vars

\* The same index, called with files whose contents are longer than a
\* snippet, are white space or are empty.
SnippetNext ==
    \/ \E fs \in SnippetLists : CreateIndexCall(fs)
    \/ CreateIndexTf
    \/ CreateIndexIdf
    \/ CreateIndexVectors
    \/ PromiseAwaited
    \/ \E q \in SnippetQueries, l \in LimitArgs : Search(q, l)
    \/ ExportState
    \/ \E p \in SnippetPayloads : ImportState(p)
    \/ ImportExported

SnippetSpec == Init /\ [][SnippetNext]_vars

\* The tokenizer alone: a new index and a text about to be tokenized.
TokenizeInit ==
    /\ documents = <<>>
    /\ idf = <<>>
    /\ metadata = <<>>
    /\ stage = "idle"
    /\ files = <<>>
    /\ tfMaps = <<>>
    /\ docCounts = <<>>
    /\ imported = FALSE
    /\ \E text \in Texts : ret = [op |-> "text", text |-> text]

TokenizeNext == Tokenize

TokenizeSpec == TokenizeInit /\ [][TokenizeNext]_vars

\* ----------------------------------------------------------------- claims

\* A step that is a call of importState.
ImportStep == (\E p \in Payloads : ImportState(p)) \/ ImportExported

\* search(q) with the default limit, on the index as it stands.
Found(q) == SearchIn(documents, idf, metadata, q, DefaultLimit).results

\* C1: whenever search or exportState has just returned, no createIndex call
\* is part-way through: the documents are those of the most recent
\* createIndex call run to completion, and unless importState has replaced
\* them since, so are the idf and metadata tables.  importState does not run
\* part-way through a createIndex call either.  This holds also when the
\* caller has not waited for createIndex's promise.
C1_SnapshotComplete ==
    /\ ret.op = "import" => stage = "idle"
    /\ ret.op \in {"search", "export"} =>
           LET built == FreshBuild(files)
           IN  /\ stage = "idle"
               /\ documents = built.documents
               /\ ~imported => /\ idf = built.idf
                               /\ metadata = built.metadata

\* A search that ran before the caller waited for createIndex's promise, and
\* found something.
C1_Witness == ret.op = "search" /\ ret.unawaited /\ ret.results # <<>>

\* C2: importState is all-or-nothing: after the call either both tables are
\* the payload's tables or both are what they were before the call.
C2_AllOrNothing ==
    [][ImportStep =>
         LET p == ret'.arg
         IN  \/ /\ ~ParseThrows(p) /\ ~MapThrows(p.idf) /\ ~MapThrows(p.metadata)
                /\ idf' = IdfFromEntries(p.idf.entries, <<>>)
                /\ metadata' = MetadataFromEntries(p.metadata.entries, <<>>)
             \/ /\ idf' = idf
                /\ metadata' = metadata]_vars

\* C3 as stated: right after an importState that succeeded, search returns
\* the empty list for every query, whatever index it was called on.
C3_EmptyAfterImport ==
    (ret.op = "import" /\ ~ret.caught) => \A q \in Queries : Found(q) = <<>>

\* C3 as amended: after importState on an index whose most recent createIndex
\* call vectorized no file (or that was never built), search returns the
\* empty list for every query until createIndex is called again.
C3_EmptyAfterImportUnbuilt ==
    (imported /\ stage = "idle" /\ VectorizedPaths(files) = {}) =>
        \A q \in Queries : Found(q) = <<>>

\* A search with a query of non-zero magnitude, after an import on an index
\* without documents.
C3_Witness ==
    /\ ret.op = "search" /\ ret.query = QueryGetUrl
    /\ imported /\ documents = <<>>
    /\ idf = ImportedIdf(PayloadOld, <<>>)

\* C4: importState never throws to its caller, and a text that is not JSON
\* leaves documents, idf and metadata as they were.
C4_ImportNeverThrows ==
    [][ImportStep =>
         /\ ~ret'.threw
         /\ ret'.arg.text = "garbage" =>
                /\ documents' = documents
                /\ idf' = idf
                /\ metadata' = metadata]_vars

\* importState of a text that is not JSON has returned on a built index.
C4_Witness ==
    /\ ret.op = "import" /\ ret.arg = PayloadGarbage /\ ret.caught
    /\ documents # <<>> /\ idf # <<>> /\ metadata # <<>>

\* C5: every path search returns is the path of a file the most recent
\* createIndex call vectorized.
C5_OnlyCurrentPaths ==
    ret.op = "search" =>
        \A i \in 1..Len(ret.results) : ret.results[i].path \in VectorizedPaths(files)

\* A search that found something while metadata holds an imported path.
C5_Witness ==
    /\ ret.op = "search" /\ ret.results # <<>>
    /\ imported /\ MapHas(metadata, PathOld)

\* C6: once createIndex(D) has finished, and until importState is called,
\* documents, idf and metadata are those createIndex(D) gives on a fresh
\* index, whatever calls came before.
C6_BuildDependsOnInputOnly ==
    (stage = "idle" /\ ~imported) =>
        LET built == FreshBuild(files)
        IN  /\ documents = built.documents
            /\ idf = built.idf
            /\ metadata = built.metadata

\* createIndex has just finished on a list with two vectorized files.
C6_Witness ==
    /\ stage = "idle" /\ ~imported
    /\ ret.op = "createIndex" /\ Len(documents) >= 2

\* C7: importState(exportState()) leaves idf, metadata and documents exactly
\* as they were, so every search returns what it returned before.
C7_RoundTrip ==
    [][ImportExported =>
         /\ idf' = idf
         /\ metadata' = metadata
         /\ documents' = documents
         /\ \A q \in Queries :
                SearchIn(documents', idf', metadata', q, DefaultLimit).results = Found(q)]_vars

\* C8: on the index built from a.py and b.py, search("requests get") returns
\* a.py with a score above 0.1 and does not return b.py.
C8_RequestsGet ==
    (stage = "idle" /\ ~imported /\ files = <<FileA, FileB>>) =>
        LET found == Found(QueryRequestsGet)
        IN  /\ \E i \in 1..Len(found) :
                  found[i].path = PathA /\ FGreater(found[i].score, Threshold)
            /\ \A i \in 1..Len(found) : found[i].path # PathB

\* The magnitude of the query's weighted vector under the current idf table.
QueryMagnitude(q) == FSqrt(SumSquares(QueryVector(tokenize(q), idf), Zero))

\* C9: a search whose query vector has magnitude 0 returns the empty list
\* and computes no similarity; the empty query, a query whose tokens are all
\* dropped and a query whose tokens are all unknown are such queries.
C9_ZeroMagnitudeQuery ==
    ret.op = "search" =>
        /\ ret.query \in {QueryEmpty, QueryDropped, QueryUnknown} =>
               IsZero(QueryMagnitude(ret.query))
        /\ IsZero(QueryMagnitude(ret.query)) =>
               ret.results = <<>> /\ ret.divisions = 0

\* A search for an unknown term on a built index.
C9_Witness ==
    /\ ret.op = "search" /\ ret.query = QueryUnknown
    /\ documents # <<>> /\ idf # <<>> /\ ret.divisions = 0

\* C10: every score search returns is greater than 0.1 and at most 1.
C10_ScoreRange ==
    ret.op = "search" =>
        \A i \in 1..Len(ret.results) :
            /\ FGreater(ret.results[i].score, Threshold)
            /\ ~FGreater(ret.results[i].score, FromInt(1))

\* The score line 116 gives document i for query q, on the index as it stands.
ScoreOf(q, i) ==
    LET qv == QueryVector(tokenize(q), idf)
    IN  OrZero(Similarity(qv, FSqrt(SumSquares(qv, Zero)), documents[i]))

\* The indexed documents whose score for q exceeds 0.1.
Qualifying(q) == {i \in 1..Len(documents) : FGreater(ScoreOf(q, i), Threshold)}

\* The score-ranked list for q: what search gives when nothing is cut off.
Ranked(q) == SearchIn(documents, idf, metadata, q, Len(documents)).results

Min(a, b) == IF a < b THEN a ELSE b

\* C11: search(q, limit) returns exactly the first min(limit, k) entries of
\* the score-ranked list of the k indexed documents whose score exceeds 0.1,
\* the limit being 3 when it is omitted.
C11_TruncatedToLimit ==
    ret.op = "search" =>
        LET limit == IF ret.limit.given THEN ret.limit.value ELSE 3
            k == Cardinality(Qualifying(ret.query))
            ranked == Ranked(ret.query)
        IN  /\ Len(ranked) = k
            /\ Len(ret.results) = Min(limit, k)
            /\ ret.results = SubSeq(ranked, 1, Min(limit, k))

\* A search without a limit on an index where four documents qualify: three
\* are returned.
C11_Witness ==
    /\ ret.op = "search" /\ ~ret.limit.given
    /\ Cardinality(Qualifying(ret.query)) = 4
    /\ Len(ret.results) = 3

\* The documents the result of the most recent search does not hold.
LeftOut == {d \in 1..Len(documents) :
               \A i \in 1..Len(ret.results) : ret.results[i].path # documents[d].path}

\* C12: the list search returns is ordered by non-increasing score, and no
\* indexed document left out of it has a score greater than the score of a
\* returned document.
C12_RankedByScore ==
    ret.op = "search" =>
        /\ \A i, j \in 1..Len(ret.results) :
               i < j => ~FGreater(ret.results[j].score, ret.results[i].score)
        /\ \A d \in LeftOut : \A i \in 1..Len(ret.results) :
               ~FGreater(ScoreOf(ret.query, d), ret.results[i].score)

\* A search cut to one result that is not the first document of the index,
\* while a document with a lower score above 0.1 is left out.
C12_Witness ==
    /\ ret.op = "search" /\ ret.limit.given /\ Len(ret.results) = 1
    /\ ret.results[1].path # documents[1].path
    /\ \E d \in LeftOut :
           /\ d \in Qualifying(ret.query)
           /\ FGreater(ret.results[1].score, ScoreOf(ret.query, d))

\* The dot product of lines 105-111 for the most recent search and document d.
DotOf(d) == DotProduct(QueryVector(tokenize(ret.query), idf), documents[d].vector, Zero)

\* The places of document d's path in the result of the most recent search.
PlacesOf(d) == {i \in 1..Len(ret.results) : ret.results[i].path = documents[d].path}

\* Documents a and b have the same non-zero magnitude and a has the strictly
\* higher dot product against the query of the most recent search.
Outranks(a, b) ==
    /\ documents[a].magnitude = documents[b].magnitude
    /\ ~IsZero(documents[a].magnitude)
    /\ FGreater(DotOf(a), DotOf(b))

\* C13: of two indexed documents with the same non-zero magnitude, under a
\* query of non-zero magnitude, the one with the strictly higher dot product
\* ranks first: whenever the lower one is returned, the higher one is
\* returned too, before it.
C13_HigherDotProductFirst ==
    (ret.op = "search" /\ ~IsZero(QueryMagnitude(ret.query))) =>
        \A a, b \in 1..Len(documents) :
            (Outranks(a, b) /\ PlacesOf(b) # {}) =>
                \E i \in PlacesOf(a) : \A j \in PlacesOf(b) : i < j

\* C14: on the index built from the one file db.py, whose content is the
\* token database five times, search("database") returns that file with a
\* score that does not exceed 1, and the idf of database is a non-zero number
\* although the term is in every document.
C14_SingleDocument ==
    (stage = "idle" /\ ~imported /\ files = <<FileDb>>) =>
        LET found == Found(QueryDatabase)
            weight == ValueOf(idf, TokDatabase)
        IN  /\ Len(found) = 1
            /\ found[1].path = PathDb
            /\ found[1].score.k = "num"
            /\ ~FGreater(found[1].score, FromInt(1))
            /\ weight.k = "num" /\ ~IsZero(weight)

\* search("database") has returned db.py from the index built from db.py alone.
C14_Witness ==
    /\ ret.op = "search" /\ ret.query = QueryDatabase
    /\ files = <<FileDb>> /\ ~imported
    /\ Len(ret.results) = 1 /\ ret.results[1].path = PathDb
    /\ documents[1].vector = <<Entry(TokDatabase, FMul(FromInt(5), FLog(1, 2)))>>

\* The files of the most recent createIndex call that line 34 lets through.
Kept == SelectSeq(files, Vectorized)

\* C15: createIndex has no error path.  Whatever list it is called with,
\* every step of the call does its work on every file and the call returns a
\* promise that is not rejected; once it has returned the index holds one
\* document per vectorized file, in input order, and a vectorized file that
\* yields no token is there with an empty vector and magnitude 0.
C15_NoErrorPath ==
    /\ stage = "idf" => Len(tfMaps) = Len(Kept)
    /\ stage = "vectors" =>
           /\ Len(idf) = Len(docCounts)
           /\ \A i \in 1..Len(idf) : idf[i].val.k = "num"
    /\ (stage = "idle" /\ ret.op = "createIndex") =>
           ret.promise \in {"unawaited", "awaited"}
    /\ stage = "idle" =>
           /\ Len(documents) = Len(Kept)
           /\ \A i \in 1..Len(Kept) :
                  /\ documents[i].path = Kept[i].path
                  /\ documents[i].magnitude.k = "num"
                  /\ ~imported => MapHas(metadata, Kept[i].path)
                  /\ tokenize(Kept[i].content) = <<>> =>
                         /\ documents[i].vector = <<>>
                         /\ documents[i].magnitude = Zero

\* createIndex has returned from a list that holds a file with empty content
\* and a file of which the tokenizer keeps nothing.
C15_Witness ==
    /\ stage = "idle" /\ ret.op = "createIndex"
    /\ \E i, j \in 1..Len(files) : files[i] = FileEmpty /\ files[j] = FileStop
    /\ Len(documents) = Len(files)
    /\ \E i \in 1..Len(documents) :
           documents[i].path = PathStop /\ documents[i].vector = <<>>

\* Document d holds none of the tokens of the most recent search's query.
SharesNoToken(d) ==
    LET tokens == tokenize(ret.query)
    IN  \A i \in 1..Len(tokens) : ~MapHas(documents[d].vector, tokens[i])

\* The score lines 104-119 give document d for the most recent search's query.
AssignedScore(d) ==
    LET qv == QueryVector(tokenize(ret.query), idf)
    IN  Scored(documents, metadata, qv, FSqrt(SumSquares(qv, Zero)))[d].score

\* C16: a document of magnitude 0, and a document that shares no token with
\* the query, gets the score 0 and is not returned, and every score in a
\* result is a finite number, whatever the query and the idf table.
C16_ZeroNeverUndefined ==
    ret.op = "search" =>
        /\ \A i \in 1..Len(ret.results) : ret.results[i].score.k = "num"
        /\ \A d \in 1..Len(documents) :
               (IsZero(documents[d].magnitude) \/ SharesNoToken(d)) =>
                   /\ AssignedScore(d) = Zero
                   /\ PlacesOf(d) = {}

\* A search has returned a document while the index also holds a document
\* whose weights are all 0 and a document without any of the query's tokens.
C16_Witness ==
    /\ ret.op = "search" /\ ret.results # <<>>
    /\ \E d \in 1..Len(documents) :
           IsZero(documents[d].magnitude) /\ documents[d].vector # <<>>
    /\ \E d \in 1..Len(documents) :
           SharesNoToken(d) /\ ~IsZero(documents[d].magnitude)

\* The three tables are empty.
Pristine == documents = <<>> /\ idf = <<>> /\ metadata = <<>>

\* A step that is a call of search or of exportState.
ReadStep == (\E q \in Queries, l \in LimitArgs : Search(q, l)) \/ ExportState

\* C17: the index starts empty.  Before any call the three tables are empty,
\* and search and exportState leave them empty: search returns the empty
\* list for every query and limit, exportState gives empty idf and metadata
\* lists.
C17_StartsEmpty ==
    /\ [](ret.op = "none" => Pristine)
    /\ [][(Pristine /\ ReadStep) =>
             /\ Pristine'
             /\ ret'.op = "search" => ret'.results = <<>>
             /\ ret'.op = "export" =>
                    /\ ret'.payload.text = "value"
                    /\ ret'.payload.idf = Field("entries", <<>>)
                    /\ ret'.payload.metadata = Field("entries", <<>>)]_vars

\* exportState has returned on an index that no createIndex or importState
\* call has filled.
C17_Witness ==
    /\ ret.op = "export" /\ Pristine /\ files = <<>> /\ ~imported
    /\ ret.payload.idf.entries = <<>> /\ ret.payload.metadata.entries = <<>>

\* The last n characters of a path.
Suffix(path, n) == SubSeq(path, Len(path) - n + 1, Len(path))

\* A file categorized as code, or whose path ends in .txt or .md.
CodeOrText(file) ==
    \/ file.language = "python"
    \/ Len(file.path) >= 4 /\ Suffix(file.path, 4) = <<".", "t", "x", "t">>
    \/ Len(file.path) >= 3 /\ Suffix(file.path, 3) = <<".", "m", "d">>

\* The paths of a list of files or of documents, in order.
PathsOf(list) == [i \in 1..Len(list) |-> list[i].path]

\* C18: createIndex vectorizes exactly the files that are code or end in
\* .txt or .md, in input order; any other file gets no vector and no
\* metadata entry but counts in N: with one more such file in the input the
\* indexed paths are the same and the idf of every term is different.
C18_OnlyCodeAndText ==
    stage = "idle" =>
        LET kept == SelectSeq(files, CodeOrText)
        IN  /\ PathsOf(documents) = PathsOf(kept)
            /\ ~imported =>
                   LET more == FreshBuild(Append(files, FileJ))
                   IN  /\ {metadata[i].key : i \in 1..Len(metadata)}
                              = {kept[i].path : i \in 1..Len(kept)}
                       /\ PathsOf(more.documents) = PathsOf(documents)
                       /\ Len(more.idf) = Len(idf)
                       /\ \A i \in 1..Len(idf) :
                              /\ MapHas(more.idf, idf[i].key)
                              /\ ValueOf(more.idf, idf[i].key) # idf[i].val

\* createIndex has returned from a list that holds j.json, which is skipped,
\* and q.md and r.txt, which are vectorized.
C18_Witness ==
    /\ stage = "idle" /\ ~imported /\ ret.op = "createIndex"
    /\ \E i \in 1..Len(files) : files[i] = FileJ
    /\ PathsOf(documents) = <<PathQ, PathR>>
    /\ idf # <<>> /\ ~MapHas(metadata, PathJ)

\* The tokens of a content, as a set.
TokenSet(content) == LET tokens == tokenize(content)
                     IN  {tokens[j] : j \in 1..Len(tokens)}

\* The places in the input of the files that hold the term and are vectorized.
Holders(term) == {i \in 1..Len(files) :
                     CodeOrText(files[i]) /\ term \in TokenSet(files[i].content)}

\* The terms that occur in at least one vectorized file of the input.
Terms == UNION {TokenSet(files[i].content) :
                    i \in {j \in 1..Len(files) : CodeOrText(files[j])}}

\* C19: right after createIndex(D) the idf table has one entry for each term
\* that occurs in a vectorized file and no other, and idf[term] is
\* ln(N / (1 + df)), N the number of files in D, vectorized or not, and df
\* the number of vectorized files that hold the term at least once.
C19_IdfFormula ==
    (stage = "idle" /\ ~imported) =>
        /\ {idf[i].key : i \in 1..Len(idf)} = Terms
        /\ Len(idf) = Cardinality(Terms)
        /\ \A i \in 1..Len(idf) :
               idf[i].val = FLog(Len(files), 1 + Cardinality(Holders(idf[i].key)))

\* createIndex has returned from a list that holds a.py, where requests
\* occurs twice, and logo.png, which is skipped; an idf is positive.
C19_Witness ==
    /\ stage = "idle" /\ ~imported /\ ret.op = "createIndex"
    /\ \E i, j \in 1..Len(files) : files[i] = FileA /\ files[j] = FileD
    /\ MapHas(idf, TokRequests)
    /\ FGreater(ValueOf(idf, TokRequests), Zero)

\* How many times the term occurs among the tokens of a content.
Occurrences(term, content) ==
    LET tokens == tokenize(content)
    IN  Cardinality({j \in 1..Len(tokens) : tokens[j] = term})

\* Document d has a key for exactly the tokens of the file it was made from,
\* each with the weight count * idf[term].
WeightsAsCounted(d, file) ==
    LET vector == documents[d].vector
    IN  /\ {vector[i].key : i \in 1..Len(vector)} = TokenSet(file.content)
        /\ Len(vector) = Cardinality(TokenSet(file.content))
        /\ \A i \in 1..Len(vector) :
               vector[i].val = FMul(FromInt(Occurrences(vector[i].key, file.content)),
                                    ValueOf(idf, vector[i].key))

\* Document d's magnitude is 0 exactly when every one of its weights is 0.
ZeroExactlyWhenAllZero(d) ==
    IsZero(documents[d].magnitude) <=>
        \A i \in 1..Len(documents[d].vector) : IsZero(documents[d].vector[i].val)

\* C20 as stated: right after createIndex(D) every document has the weights
\* count * idf[term] for exactly its tokens, the square of its magnitude is
\* the sum of the squares of its weights, and the magnitude is 0 exactly when
\* every weight is 0.
C20_MagnitudeSquared ==
    (stage = "idle" /\ ~imported) =>
        LET kept == SelectSeq(files, CodeOrText)
        IN  /\ Len(documents) = Len(kept)
            /\ \A d \in 1..Len(documents) :
                   /\ WeightsAsCounted(d, kept[d])
                   /\ FMul(documents[d].magnitude, documents[d].magnitude)
                          = SumSquares(documents[d].vector, Zero)
                   /\ ZeroExactlyWhenAllZero(d)

\* C20 as amended: right after createIndex(D) every document has the weights
\* count * idf[term] for exactly its tokens, its magnitude is the square root,
\* rounded as Math.sqrt rounds it, of the sum of the squares of its weights
\* added up in the vector's order, and the magnitude is 0 exactly when every
\* weight is 0.
C20_MagnitudeIsRoot ==
    (stage = "idle" /\ ~imported) =>
        LET kept == SelectSeq(files, CodeOrText)
        IN  /\ Len(documents) = Len(kept)
            /\ \A d \in 1..Len(documents) :
                   /\ WeightsAsCounted(d, kept[d])
                   /\ documents[d].magnitude
                          = FSqrt(SumSquares(documents[d].vector, Zero))
                   /\ ZeroExactlyWhenAllZero(d)

\* createIndex has returned from c.md alone: its two weights are ln(1/2), and
\* the square of its magnitude is not the sum of the squares of its weights.
C20_Witness ==
    /\ stage = "idle" /\ ~imported /\ ret.op = "createIndex"
    /\ files = <<FileC>>
    /\ documents[1].vector = <<Entry(TokGet, FLog(1, 2)), Entry(TokUrl, FLog(1, 2))>>
    /\ documents[1].magnitude = FSqrt(SumSquares(documents[1].vector, Zero))
    /\ FMul(documents[1].magnitude, documents[1].magnitude)
           # SumSquares(documents[1].vector, Zero)

\* A character of [a-z0-9_] stands at place i of text.
IsWordAt(text, i) == text[i] \in WordChars

\* A maximal run of [a-z0-9_] starts at place i of text.
RunStartsAt(text, i) == IsWordAt(text, i) /\ (i = 1 \/ ~IsWordAt(text, i - 1))

\* The place where the maximal run that starts at place i ends.
RunEnd(text, i) ==
    CHOOSE j \in i..Len(text) :
        /\ \A k \in i..j : IsWordAt(text, k)
        /\ j = Len(text) \/ ~IsWordAt(text, j + 1)

\* The maximal runs of [a-z0-9_] of text from place i on, in order of
\* occurrence.
RECURSIVE RunsFrom(_, _)
RunsFrom(text, i) ==
    IF i > Len(text) THEN <<>>
    ELSE IF RunStartsAt(text, i)
         THEN <<SubSeq(text, i, RunEnd(text, i))>> \o RunsFrom(text, i + 1)
         ELSE RunsFrom(text, i + 1)

LongRun(run) == Len(run) > 2 /\ run \notin StopWords

\* The runs of the lower-cased text that are longer than two characters and
\* are no stopword.
ExpectedTokens(text) == SelectSeq(RunsFrom(ToLowerCase(text), 1), LongRun)

\* The tokens joined by single spaces.
RECURSIVE JoinSpace(_)
JoinSpace(tokens) ==
    IF tokens = <<>> THEN <<>>
    ELSE IF Len(tokens) = 1 THEN Head(tokens)
         ELSE Head(tokens) \o <<" ">> \o JoinSpace(Tail(tokens))

\* C21: tokenize returns, for every text, the maximal runs of [a-z0-9_] of the
\* lower-cased text in order of occurrence, duplicates kept, without the runs
\* of at most two characters and without the stopwords; so every token has at
\* least three characters, all of [a-z0-9_], is no stopword, and tokenizing
\* the tokens joined by spaces gives the same tokens again.
C21_TokenizerRuns ==
    ret.op = "tokenize" =>
        /\ ret.tokens = ExpectedTokens(ret.text)
        /\ \A i \in 1..Len(ret.tokens) :
              /\ Len(ret.tokens[i]) >= 3
              /\ \A k \in 1..Len(ret.tokens[i]) : ret.tokens[i][k] \in WordChars
              /\ ret.tokens[i] \notin StopWords
        /\ tokenize(JoinSpace(ret.tokens)) = ret.tokens

\* tokenize was given a text with the same word twice, in upper case, next to
\* something it drops, and returned the word twice.
C21_Witness ==
    /\ ret.op = "tokenize"
    /\ ret.tokens = << <<"g", "e", "t">>, <<"g", "e", "t">> >>
    /\ Len(ret.text) > 7

\* What is left of the character at place i when every run of white space
\* is replaced by one space: nothing inside a run, a space at its start.
SqueezedAt(text, i) ==
    IF text[i] \notin WhiteSpace THEN <<text[i]>>
    ELSE IF i > 1 /\ text[i - 1] \in WhiteSpace THEN <<>> ELSE <<" ">>

RECURSIVE SqueezedBetween(_, _, _)
SqueezedBetween(text, lo, hi) ==
    IF lo > hi THEN <<>>
    ELSE IF lo = hi THEN SqueezedAt(text, lo)
    ELSE SqueezedBetween(text, lo, (lo + hi) \div 2)
         \o SqueezedBetween(text, (lo + hi) \div 2 + 1, hi)

\* The text with every run of white space replaced by one space.
Squeezed(text) == SqueezedBetween(text, 1, Len(text))

\* The first n characters of text.
FirstChars(text, n) == SubSeq(text, 1, Min(n, Len(text)))

\* C22: immediately after createIndex(D) the metadata snippet of every
\* vectorized document is the first 200 characters of its content with every
\* run of white space replaced by one space, followed by "...", whatever the
\* length of the content; so it ends in "..." and has at most 203 characters.
C22_SnippetOfContent ==
    (stage = "idle" /\ ~imported) =>
        \A i \in 1..Len(files) :
            Vectorized(files[i]) =>
                /\ MapHas(metadata, files[i].path)
                /\ SnippetOf(metadata, files[i].path)
                       = Squeezed(FirstChars(files[i].content, 200)) \o <<".", ".", ".">>
                /\ EndsWith(SnippetOf(metadata, files[i].path), <<".", ".", ".">>)
                /\ Len(SnippetOf(metadata, files[i].path)) <= 203

\* createIndex has returned for a content of more than 200 characters whose
\* snippet has 203, a content cut inside a run of white space, a content with
\* leading white space and an empty content whose snippet is "...".
C22_Witness ==
    /\ stage = "idle"
    /\ ~imported
    /\ files = <<FileLong, FileWide, FileEmpty>>
    /\ Len(SnippetOf(metadata, PathLong)) = 203
    /\ Len(ContentWide) > 200
    /\ Len(SnippetOf(metadata, PathWide)) = 198
    /\ SnippetOf(metadata, PathEmpty) = <<".", ".", ".">>

\* C23: in every index snapshot no two document entries have the same path,
\* and no path appears twice in one search result, whatever collection
\* createIndex was given.
C23_PathsUnique ==
    /\ \A i, j \in 1..Len(documents) : documents[i].path = documents[j].path => i = j
    /\ ret.op = "search" =>
          \A i, j \in 1..Len(ret.results) :
              ret.results[i].path = ret.results[j].path => i = j

\* The limit the most recent search ran with.
LimitUsed == IF ret.limit.given THEN ret.limit.value ELSE 3

\* The tokens among "nothing", "url", "log" and "old" that the idf table
\* does not hold.
AbsentTokens == {t \in {QueryUnknown, TokUrl, TokLog, TokOld} : ~MapHas(idf, t)}

\* The query q with one or two absent tokens added, after it or before it.
Extended(q) ==
    {q \o <<" ">> \o x : x \in AbsentTokens}
    \cup {x \o <<" ">> \o q : x \in AbsentTokens}
    \cup {q \o <<" ">> \o x \o <<" ">> \o y : x \in AbsentTokens, y \in AbsentTokens}

\* C24: a query never extends the vector space.  Adding tokens that the idf
\* table does not hold to a query changes neither the paths returned, nor
\* their order, nor their scores; and search adds nothing to the idf table or
\* to a document's vector.
C24_QueryNeverExtends ==
    /\ [](ret.op = "search" =>
             \A q \in Extended(ret.query) :
                 SearchIn(documents, idf, metadata, q, LimitUsed).results = ret.results)
    /\ [][ret'.op = "search" => (idf' = idf /\ documents' = documents)]_vars

\* A search has returned documents while the idf table, installed by
\* importState, lacks a term their vectors hold.
C24_Witness ==
    /\ ret.op = "search" /\ ret.results # <<>>
    /\ TokUrl \in AbsentTokens
    /\ \E d \in 1..Len(documents) : MapHas(documents[d].vector, TokUrl)

\* C25: importState and exportState never create, remove or change a
\* document vector.  After importState of any payload, accepted or not, the
\* documents list is the one the most recent createIndex call left, and what
\* exportState returns holds the idf and metadata tables and nothing else.
C25_DocumentsUntouched ==
    /\ [](ret.op = "import" => documents = FreshBuild(files).documents)
    /\ [](ret.op = "export" =>
             /\ DOMAIN ret.payload = {"text", "idf", "metadata"}
             /\ ret.payload.text = "value"
             /\ ret.payload.idf = Field("entries", StringifyIdf(idf))
             /\ ret.payload.metadata = Field("entries", StringifyMetadata(metadata)))
    /\ [][ret'.op \in {"import", "export"} => documents' = documents]_vars

\* importState has replaced both tables of a built index whose documents are
\* still those createIndex made.
C25_Witness ==
    /\ ret.op = "import" /\ ret.arg = PayloadOld /\ ~ret.caught
    /\ Len(documents) = 3
    /\ idf = ImportedIdf(PayloadOld, <<>>)
    /\ \A d \in 1..Len(documents) : ~MapHas(metadata, documents[d].path)

\* C26: search and exportState read the index and do not change it, so the
\* same search repeated with no createIndex or importState in between returns
\* the same list each time, and a search or an export between two other
\* operations does not change what they produce.
C26_ReadOnly ==
    /\ [][ret'.op \in {"search", "export"} =>
             UNCHANGED <<documents, idf, metadata, stage, files, tfMaps,
                         docCounts, imported>>]_vars
    /\ [](ret.op = "search" =>
             ret.results = SearchIn(documents, idf, metadata, ret.query, LimitUsed).results)
    /\ [](ret.op = "export" => ret.payload = ExportOf(idf, metadata))

\* A search has returned two documents from a built index.
C26_Witness ==
    /\ ret.op = "search" /\ Len(ret.results) = 2 /\ ~imported
    /\ Len(documents) = 3

\* The number of vectorized files of the input that hold the term.
DocFrequency(term) == Cardinality(Holders(term))

\* Every token of the text is a term held by all but one of the input files.
OnlyBalancedTerms(text) ==
    \A term \in TokenSet(text) : term \in Terms /\ DocFrequency(term) = Len(files) - 1

\* C27: after createIndex(D) with N input files the sign of idf[term] follows
\* the term's document frequency df: positive iff df < N - 1, zero iff
\* df = N - 1, negative iff df = N.  So a query made only of terms with
\* df = N - 1 has magnitude 0 and search returns the empty list for it, and a
\* document all of whose terms have df = N - 1 has magnitude 0 and is never
\* returned.
C27_IdfSign ==
    (stage = "idle" /\ ~imported) =>
        /\ \A term \in Terms :
               /\ FGreater(ValueOf(idf, term), Zero) <=> DocFrequency(term) < Len(files) - 1
               /\ IsZero(ValueOf(idf, term)) <=> DocFrequency(term) = Len(files) - 1
               /\ FGreater(Zero, ValueOf(idf, term)) <=> DocFrequency(term) = Len(files)
        /\ (ret.op = "search" /\ OnlyBalancedTerms(ret.query)) =>
               IsZero(QueryMagnitude(ret.query)) /\ ret.results = <<>>
        /\ \A d \in 1..Len(documents) :
               OnlyBalancedTerms(Kept[d].content) =>
                   /\ IsZero(documents[d].magnitude)
                   /\ ret.op = "search" =>
                          \A i \in 1..Len(ret.results) :
                              ret.results[i].path # documents[d].path

\* A search for "get url" has returned from an index built from c.md, whose
\* two terms it is, and logo.png, which is skipped: both terms have df = 1 of
\* N = 2.
C27_Witness ==
    /\ stage = "idle" /\ ~imported
    /\ files = <<FileC, FileD>>
    /\ ret.op = "search" /\ ret.query = QueryGetUrl /\ ret.results = <<>>
    /\ IsZero(ValueOf(idf, TokGet))
    /\ Len(documents) = 1 /\ IsZero(documents[1].magnitude)

\* Every query of the specification finds nothing in an index of these tables.
QuietIn(docs, table, meta) ==
    \A q \in RankQueries : SearchIn(docs, table, meta, q, DefaultLimit).results = <<>>

Quiet == QuietIn(documents, idf, metadata)

\* importState of a JSON object that lacks a field has just returned.
ImportedIncomplete ==
    /\ ret.op = "import"
    /\ ret.arg.text = "value"
    /\ ret.arg.idf.k = "absent" \/ ret.arg.metadata.k = "absent"

\* importState("{}") has just returned on a built index.
JustEmptied == ret.op = "import" /\ ret.arg = PayloadEmpty /\ documents # <<>>

\* Importing a JSON object that lacks a field raises no error and leaves the
\* table of the missing field empty.
MissingFieldEmpties ==
    ImportedIncomplete =>
        /\ ~ret.caught /\ ~ret.threw
        /\ ret.arg.idf.k = "absent" => idf = <<>>
        /\ ret.arg.metadata.k = "absent" => metadata = <<>>

\* C28 as stated: a JSON object without an idf or a metadata field is
\* imported without an error and empties that table, so after
\* importState("{}") on a built index both tables are empty and every search
\* returns the empty list until the next createIndex call.
C28_QuietUntilRebuilt ==
    /\ [](MissingFieldEmpties)
    /\ [](JustEmptied => (idf = <<>> /\ metadata = <<>> /\ Quiet))
    /\ [][(JustEmptied /\ ret'.op # "createIndex") =>
             QuietIn(documents', idf', metadata')]_vars

\* C28: a JSON object without an idf or a metadata field is imported without
\* an error and empties that table, so after importState("{}") on a built
\* index both tables are empty; every search returns the empty list while
\* the idf table is empty, that is until the next createIndex call or the
\* next importState call.
C28_QuietUntilReplaced ==
    /\ [](MissingFieldEmpties)
    /\ [](JustEmptied => (idf = <<>> /\ metadata = <<>>))
    /\ [](idf = <<>> => Quiet)
    /\ [][(idf = <<>> /\ ret'.op \notin {"createIndex", "import"}) => idf' = <<>>]_vars

\* A search has found nothing in a built index of three documents whose
\* tables importState("{}") emptied.
C28_Witness ==
    /\ ret.op = "search" /\ ret.query = QueryGetGetGetUrlLog /\ ret.results = <<>>
    /\ imported /\ stage = "idle"
    /\ Len(documents) = 3 /\ idf = <<>> /\ metadata = <<>>

\* The content of the file of the most recent createIndex call with this path.
ContentAt(path) == files[CHOOSE i \in 1..Len(files) : files[i].path = path].content

\* The snippet of a content: its first 200 characters, white space squeezed,
\* and "...".
OwnSnippet(path) == Squeezed(FirstChars(ContentAt(path), 200)) \o <<".", ".", ".">>

\* Right after createIndex the keys of metadata are the paths of the indexed
\* documents, and until importState is called every search result carries
\* the snippet of its own document.
KeysArePaths ==
    /\ (stage = "idle" /\ ~imported) =>
           {metadata[i].key : i \in 1..Len(metadata)}
               = {documents[d].path : d \in 1..Len(documents)}
    /\ (ret.op = "search" /\ ~imported) =>
           \A i \in 1..Len(ret.results) :
               /\ ret.results[i].snippet = OwnSnippet(ret.results[i].path)
               /\ ret.results[i].snippet # <<>>

\* C29 as stated: right after createIndex the keys of metadata are the paths
\* of the indexed documents and every search result carries its document's
\* own snippet; a result has the empty snippet only when its path is missing
\* from a metadata table that importState installed.
C29_EmptyOnlyWhenMissing ==
    /\ KeysArePaths
    /\ ret.op = "search" =>
           \A i \in 1..Len(ret.results) :
               /\ ~MapHas(metadata, ret.results[i].path) => ret.results[i].snippet = <<>>
               /\ ret.results[i].snippet = <<>> =>
                      imported /\ ~MapHas(metadata, ret.results[i].path)

\* C29: right after createIndex the keys of metadata are the paths of the
\* indexed documents and every search result carries its document's own
\* snippet; a result has the empty snippet only when a metadata table that
\* importState installed lacks its path or holds the empty string for it.
C29_EmptyOnlyAfterImport ==
    /\ KeysArePaths
    /\ ret.op = "search" =>
           \A i \in 1..Len(ret.results) :
               /\ ~MapHas(metadata, ret.results[i].path) => ret.results[i].snippet = <<>>
               /\ ret.results[i].snippet = <<>> =>
                      /\ imported
                      /\ \/ ~MapHas(metadata, ret.results[i].path)
                         \/ metadata[MapIndex(metadata, ret.results[i].path)].val = <<>>

\* A search has returned p.py, for which the imported metadata table holds
\* the empty string, and a document the table lacks, both with the empty
\* snippet.
C29_Witness ==
    /\ ret.op = "search" /\ imported
    /\ MapHas(metadata, PathP)
    /\ \E i, j \in 1..Len(ret.results) :
           /\ ret.results[i].path = PathP /\ ret.results[i].snippet = <<>>
           /\ ~MapHas(metadata, ret.results[j].path) /\ ret.results[j].snippet = <<>>

\* The place of the file with this path in the list the most recent
\* createIndex call was given.
InputPlace(path) == CHOOSE i \in 1..Len(files) : files[i].path = path

\* The documents the most recent search left out although their score
\* exceeds 0.1: those the limit cut off.
CutOff == LeftOut \cap Qualifying(ret.query)

\* C30: ties are broken by input order.  Two returned documents with equal
\* scores appear in the order in which the most recent createIndex call was
\* given them, and when the limit cuts between documents with equal scores
\* the one given earlier is kept.
C30_TiesByInputOrder ==
    ret.op = "search" =>
        /\ \A i, j \in 1..Len(ret.results) :
               (i < j /\ ret.results[i].score = ret.results[j].score) =>
                   InputPlace(ret.results[i].path) < InputPlace(ret.results[j].path)
        /\ \A d \in CutOff : \A i \in 1..Len(ret.results) :
               ScoreOf(ret.query, d) = ret.results[i].score =>
                   InputPlace(ret.results[i].path) < InputPlace(documents[d].path)

\* A search with limit 2 has returned r.txt and p.py and cut off q.md, which
\* has p.py's score and was given after it.
C30_Witness ==
    /\ ret.op = "search" /\ ret.limit = Limit(TRUE, 2) /\ ~imported
    /\ files = <<FileP, FileQ, FileR>>
    /\ Len(ret.results) = 2
    /\ ret.results[2].path = PathP
    /\ \E d \in CutOff :
           /\ documents[d].path = PathQ
           /\ ScoreOf(ret.query, d) = ret.results[2].score

====
